---- MODULE Spec2Model ----
(***************************************************************************)
(* Model of the '/start' command of command-start-stop:                    *)
(*   src/src/handlers/shared/start.ts   start, fetchUserIds,               *)
(*                                      handleTaskLimitChecks              *)
(*   src/unnamed/part_000  1..79        check-assignments                  *)
(*                                      (getAppId, hasUserBeenUnassigned,  *)
(*                                       getAssignmentEvents)              *)
(*   src/unnamed/part_000  81..466      utils/issue (isParentIssue,        *)
(*                                      addAssignees, review classifier)   *)
(*                                                                         *)
(* Four specifications share the variables:                                *)
(*   SpecLimit    the arithmetic of handleTaskLimitChecks                  *)
(*   SpecHistory  hasUserBeenUnassigned over a growing issue timeline      *)
(*   SpecReview   the loop of getAvailableOpenedPullRequests               *)
(*   Spec         one invocation of start, step by step                    *)
(***************************************************************************)
EXTENDS Integers, Sequences, FiniteSets, TLC

VARIABLES
    lc,         \* SpecLimit: the last evaluation of the task-limit comparison
    sender,     \* login of the author of the '/start' comment
    appIdEnv,   \* env.APP_ID after JSON.parse (0 stands for unset / invalid)
    events,     \* raw timeline of the issue, oldest first
    hist,       \* SpecHistory: outcome of the last hasUserBeenUnassigned call
    rvPc,       \* getAvailableOpenedPullRequests: "start", "loop", "reviews", "done", "threw"
    reviewDelayTolerance,   \* config.reviewDelayTolerance is set (truthy)
    openedPullRequests,     \* what getOpenedPullRequestsForUser returned
    i,          \* loop index of line 376 (1-based)
    approved,   \* numbers of the pull requests pushed to approved
    changes,    \* numbers of the pull requests pushed to changes
    cur,        \* what the remote returned for the pull request classified last
    twice,      \* the lists of a second call that reads what the first call reads
    pc,         \* start: the statement the invocation is at
    hasSender,  \* context.payload.sender is present
    issue,      \* the issue of the payload: body, state, assignees, labels
    teammates,  \* the teammates argument (start pushes the sender onto it)
    toAssign,   \* start's toAssign list
    k,          \* 1-based position of the loop over teammates / toAssign
    workload,   \* per login: the counts and limit the remote returned
    collaborator,      \* per login: the answer of isUserCollaborator
    userIds,    \* per login: data.id of users.getByUsername (0: no id)
    remoteAssignees,   \* assignees of the issue on the platform
    written,    \* the lists passed to issues.addAssignees, in order
    comments,   \* comments this invocation created on the issue
    calls,      \* remote calls issued by this invocation, in order
    fault,      \* the remote call or configuration value that failed, if any
    result,     \* what start returned or threw
    rival,      \* SpecRace: a second invocation of start on the same issue
    rd,         \* SpecReads: one read with a fallback (issues or pull requests)
    pair        \* SpecPair: two invocations of start on two different issues

limitVars == <<lc>>
histVars == <<sender, appIdEnv, events, hist>>
reviewVars == <<rvPc, reviewDelayTolerance, openedPullRequests, i, approved, changes, cur,
                twice>>
startVars == <<pc, hasSender, issue, teammates, toAssign, k, workload, collaborator,
               userIds, remoteAssignees, written, comments, calls, fault, result>>
raceVars == <<rival>>
readVars == <<rd>>
pairVars == <<pair>>
vars == <<lc, sender, appIdEnv, events, hist,
          rvPc, reviewDelayTolerance, openedPullRequests, i, approved, changes, cur, twice,
          pc, hasSender, issue, teammates, toAssign, k, workload, collaborator,
          userIds, remoteAssignees, written, comments, calls, fault, result,
          rival, rd, pair>>

None == "none"

(***************************************************************************)
(* Bounds of the model.                                                    *)
(***************************************************************************)
MaxCount == 3      \* assigned issues / approved PRs / changes-requested PRs
MaxLimit == 3      \* task limits run over 1..MaxLimit
MaxEvents == 3     \* length of the issue timeline in SpecHistory
MaxPRs == 2        \* open pull requests of one user
MaxReviews == 2    \* review nodes returned for one pull request
MaxTime == 2       \* review submission times run over 1..MaxTime
MaxTeammates == 2  \* teammates named in a '/start' command

(***************************************************************************)
(* Logins.  GitHub logins keep their case; "Alice" is a login with an      *)
(* upper-case letter, so String.prototype.toLowerCase is not the identity. *)
(***************************************************************************)
Humans == {"Alice", "bob", "carol"}
BotLogin == "app[bot]"

toLowerCase(s) == IF s = "Alice" THEN "alice" ELSE s

\* the numeric id GitHub reports for an actor login
ActorIdOf(login) ==
    CASE login = "Alice" -> 11
      [] login = "bob" -> 12
      [] login = "carol" -> 13
      [] login = BotLogin -> 7
      [] OTHER -> 0

\* the id of the GitHub App the plugin runs as
BotId == ActorIdOf(BotLogin)

(***************************************************************************)
(* handleTaskLimitChecks, the comparison (start.ts 163..174).              *)
(***************************************************************************)
Abs(x) == IF x < 0 THEN -x ELSE x

adjustedAssignedIssues(nAssigned, nApproved, nChanges) == nAssigned - nApproved + nChanges

\* a plausible slip: '>' for '>='
LimitReachedOffByOne(nAssigned, nApproved, nChanges, limit) ==
    Abs(adjustedAssignedIssues(nAssigned, nApproved, nChanges)) > limit

\* a plausible slip: the sign of the sum is kept
LimitReachedSigned(nAssigned, nApproved, nChanges, limit) ==
    adjustedAssignedIssues(nAssigned, nApproved, nChanges) >= limit

\* TRUE when handleTaskLimitChecks returns false at line 173
LimitReached(nAssigned, nApproved, nChanges, limit) ==
    Abs(adjustedAssignedIssues(nAssigned, nApproved, nChanges)) >= limit

Counts == 0..MaxCount
Limits == 1..MaxLimit

LimitIdle == lc = [assigned |-> 0, approved |-> 0, changes |-> 0, limit |-> 1, passed |-> TRUE]

\* one evaluation of lines 159..174 on the lengths the three reads returned
EvaluateLimit ==
    /\ \E a \in Counts, p \in Counts, c \in Counts, l \in Limits :
          lc' = [assigned |-> a, approved |-> p, changes |-> c, limit |-> l,
                 passed |-> ~LimitReached(a, p, c, l)]
    /\ UNCHANGED <<histVars, reviewVars, startVars, raceVars, readVars, pairVars>>

(***************************************************************************)
(* check-assignments (part_000 1..79).                                     *)
(***************************************************************************)
\* getAppId: a positive number, or the call throws "Invalid APP_ID"
AppIdValid(env) == env > 0

\* raw timeline events: what listEventsForTimeline returns
AssignKinds == {"assigned", "unassigned"}
RawEvents ==
    [event : AssignKinds, actor : {"Alice", "bob", BotLogin}, assignee : {"Alice", "bob"}]
      \cup [event : AssignKinds, actor : {None}, assignee : {"Alice"}]
      \cup [event : {"labeled"}, actor : {"bob"}, assignee : {None}]

\* getAssignmentEvents 49..68: keep assigned/unassigned, copy the fields only
\* when both actor and assignee are present; createdAt is the position
MapEvent(e, at) ==
    IF e.actor # None /\ e.assignee # None
    THEN [event |-> e.event, actor |-> e.actor, actorId |-> ActorIdOf(e.actor),
          assignee |-> e.assignee, createdAt |-> at]
    ELSE [event |-> e.event, actor |-> None, actorId |-> 0,
          assignee |-> None, createdAt |-> 0]

RECURSIVE MapAssignmentEvents(_, _)
MapAssignmentEvents(raw, at) ==
    IF raw = <<>> THEN <<>>
    ELSE IF Head(raw).event \in AssignKinds
         THEN <<MapEvent(Head(raw), at)>> \o MapAssignmentEvents(Tail(raw), at + 1)
         ELSE MapAssignmentEvents(Tail(raw), at + 1)

\* getAssignmentEvents 70..74: sort by createdAt; an event without createdAt
\* compares as NaN, which the sort treats as "not smaller"
RECURSIVE InsertByCreatedAt(_, _)
InsertByCreatedAt(e, sorted) ==
    IF sorted = <<>> THEN <<e>>
    ELSE IF e.createdAt # 0 /\ Head(sorted).createdAt # 0 /\ e.createdAt < Head(sorted).createdAt
         THEN <<e>> \o sorted
         ELSE <<Head(sorted)>> \o InsertByCreatedAt(e, Tail(sorted))

RECURSIVE SortByCreatedAt(_)
SortByCreatedAt(s) ==
    IF s = <<>> THEN <<>>
    ELSE InsertByCreatedAt(s[Len(s)], SortByCreatedAt(SubSeq(s, 1, Len(s) - 1)))

getAssignmentEvents(raw) == SortByCreatedAt(MapAssignmentEvents(raw, 1))

\* a plausible slip: only the most recent event of the user decides
hasUserBeenUnassignedLatestOnly(raw, login, appId) ==
    LET senderLogin == toLowerCase(login)
        all == getAssignmentEvents(raw)
        IsUser(e) == e.assignee # None /\ toLowerCase(e.assignee) = senderLogin
        userAssignments == SelectSeq(all, IsUser)
        last == userAssignments[Len(userAssignments)]
    IN  IF Len(userAssignments) = 0 THEN FALSE
        ELSE /\ last.event = "unassigned"
             /\ \/ last.actorId = appId
                \/ toLowerCase(last.actor) # senderLogin

\* a plausible slip: the actor is compared without lower-casing it
hasUserBeenUnassignedCaseSlip(raw, login, appId) ==
    LET senderLogin == toLowerCase(login)
        all == getAssignmentEvents(raw)
        IsUser(e) == e.assignee # None /\ toLowerCase(e.assignee) = senderLogin
        userAssignments == SelectSeq(all, IsUser)
        IsUnassigned(e) == e.event = "unassigned"
        unassignedEvents == SelectSeq(userAssignments, IsUnassigned)
        IsBot(e) == e.actorId = appId
        IsAdmin(e) == e.actor # senderLogin /\ e.actorId # appId
    IN  IF Len(userAssignments) = 0 THEN FALSE
        ELSE Len(SelectSeq(unassignedEvents, IsBot)) > 0
               \/ Len(SelectSeq(unassignedEvents, IsAdmin)) > 0

\* hasUserBeenUnassigned 26..37, once getAppId has returned appId; login is
\* context.payload.comment.user.login, the author of the command
hasUserBeenUnassigned(raw, login, appId) ==
    LET senderLogin == toLowerCase(login)
        all == getAssignmentEvents(raw)
        IsUser(e) == e.assignee # None /\ toLowerCase(e.assignee) = senderLogin
        userAssignments == SelectSeq(all, IsUser)
        IsUnassigned(e) == e.event = "unassigned"
        unassignedEvents == SelectSeq(userAssignments, IsUnassigned)
        IsBot(e) == e.actorId = appId
        IsAdmin(e) == toLowerCase(e.actor) # senderLogin /\ e.actorId # appId
    IN  IF Len(userAssignments) = 0 THEN FALSE
        ELSE Len(SelectSeq(unassignedEvents, IsBot)) > 0
               \/ Len(SelectSeq(unassignedEvents, IsAdmin)) > 0

HistIdle ==
    /\ sender = "Alice"
    /\ appIdEnv = BotId
    /\ events = <<>>
    /\ hist = [checked |-> FALSE, outcome |-> None]

\* the platform records one more event on the issue
AppendEvent ==
    /\ Len(events) < MaxEvents
    /\ \E e \in RawEvents : events' = Append(events, e)
    /\ hist' = [checked |-> FALSE, outcome |-> None]
    /\ UNCHANGED <<sender, appIdEnv, lc, reviewVars, startVars, raceVars, readVars, pairVars>>

\* one call of hasUserBeenUnassigned(context) on the current timeline
CheckHistory ==
    /\ ~hist.checked
    /\ hist' = [checked |-> TRUE,
                outcome |-> IF ~AppIdValid(appIdEnv) THEN "throw"
                            ELSE IF hasUserBeenUnassigned(events, sender, appIdEnv)
                                 THEN "true" ELSE "false"]
    /\ UNCHANGED <<sender, appIdEnv, events, lc, reviewVars, startVars, raceVars, readVars, pairVars>>

(***************************************************************************)
(* utils/issue: the review classifier (part_000 272..411).                 *)
(***************************************************************************)
ReviewStates == {"APPROVED", "CHANGES_REQUESTED", "COMMENTED"}
Times == 1..MaxTime
\* review_requested / review_request_removed events may be later than any review
RequestTimes == 1..(MaxTime + 1)

ReviewNode == [state : ReviewStates, submittedAt : Times]

\* reviews(last: 10) come oldest first
Chronological(nodes) ==
    \A a \in 1..Len(nodes), b \in 1..Len(nodes) :
        a < b => nodes[a].submittedAt <= nodes[b].submittedAt

ReviewNodeSeqs ==
    UNION {{nodes \in [1..n -> ReviewNode] : Chronological(nodes)} : n \in 0..MaxReviews}

\* reviewNodes[reviewNodes.length - 1] of an empty list: undefined
NoReview == [state |-> None, submittedAt |-> 0]

\* a plausible slip: only the latest review is tested for requested changes
getLatestReviewStatusLatestOnly(nodes) ==
    [latestReview |-> IF Len(nodes) = 0 THEN NoReview ELSE nodes[Len(nodes)],
     hasUnresolvedChanges |->
         Len(nodes) > 0 /\ nodes[Len(nodes)].state = "CHANGES_REQUESTED"]

\* getLatestReviewStatus 346..354
getLatestReviewStatus(nodes) ==
    [latestReview |-> IF Len(nodes) = 0 THEN NoReview ELSE nodes[Len(nodes)],
     hasUnresolvedChanges |-> \E q \in 1..Len(nodes) : nodes[q].state = "CHANGES_REQUESTED"]

\* getReviewRequestsTimeline 303..325: the created_at of the review-request
\* events, or [] when the read throws
getReviewRequestsTimeline(ok, remote) == IF ok THEN remote ELSE {}

\* a plausible slip: '>=' for '>'
isReviewRequestedAfterChangesInclusive(lastChangesRequestedTime, reviewRequests) ==
    IF lastChangesRequestedTime # 0
    THEN \E t \in reviewRequests : t >= lastChangesRequestedTime
    ELSE FALSE

\* lines 391..396; a missing submittedAt is 0 (null)
isReviewRequestedAfterChanges(lastChangesRequestedTime, reviewRequests) ==
    IF lastChangesRequestedTime # 0
    THEN \E t \in reviewRequests : t > lastChangesRequestedTime
    ELSE FALSE

\* a plausible slip: shift() for pop(), the oldest entry is removed
PopOldest(s) == IF s = <<>> THEN s ELSE Tail(s)

\* Array.prototype.pop (line 400): the last element is removed
Pop(s) == IF s = <<>> THEN s ELSE SubSeq(s, 1, Len(s) - 1)

\* a plausible slip: line 384 tests the latest state only, so that line 405
\* and with it the clock decide for a pull request without a review
ClassifyOneByAge(appr, chg, pr, nodes, timelineOk, remoteRequests, oldEnough) ==
    LET status == getLatestReviewStatus(nodes)
        latestReview == status.latestReview
        latestReviewState == latestReview.state
    IN  IF latestReviewState = "APPROVED"
        THEN [approved |-> Append(appr, pr), changes |-> chg]
        ELSE LET pushed == IF latestReviewState = "CHANGES_REQUESTED"
                           THEN Append(chg, pr) ELSE chg
                 overridden ==
                     /\ latestReviewState = "CHANGES_REQUESTED"
                     /\ isReviewRequestedAfterChanges(latestReview.submittedAt,
                            getReviewRequestsTimeline(timelineOk, remoteRequests))
             IN  IF overridden
                 THEN [approved |-> Append(appr, pr), changes |-> Pop(pushed)]
                 ELSE IF latestReview = NoReview /\ oldEnough
                      THEN [approved |-> Append(appr, pr), changes |-> pushed]
                      ELSE [approved |-> appr, changes |-> pushed]

\* one iteration of the loop body, lines 377..407, for pull request pr:
\* the lists after it
ClassifyOne(appr, chg, pr, nodes, timelineOk, remoteRequests, oldEnough) ==
    LET status == getLatestReviewStatus(nodes)
        latestReview == status.latestReview
        latestReviewState == latestReview.state
    IN  IF latestReviewState = "APPROVED" \/ ~status.hasUnresolvedChanges
        THEN [approved |-> Append(appr, pr), changes |-> chg]
        ELSE LET pushed == IF latestReviewState = "CHANGES_REQUESTED"
                           THEN Append(chg, pr) ELSE chg
                 overridden ==
                     /\ latestReviewState = "CHANGES_REQUESTED"
                     /\ isReviewRequestedAfterChanges(latestReview.submittedAt,
                            getReviewRequestsTimeline(timelineOk, remoteRequests))
             IN  IF overridden
                 THEN [approved |-> Append(appr, pr), changes |-> Pop(pushed)]
                 ELSE IF latestReview = NoReview /\ oldEnough
                      THEN [approved |-> Append(appr, pr), changes |-> pushed]
                      ELSE [approved |-> appr, changes |-> pushed]

\* nothing classified yet
NoPr == [number |-> 0, nodes |-> <<>>, timelineOk |-> TRUE, requests |-> {},
         oldEnough |-> FALSE, changesBefore |-> <<>>]

\* the second call has classified nothing yet
NoTwice == [approved |-> <<>>, changes |-> <<>>, failed |-> FALSE, aged |-> FALSE]

ReviewIdle ==
    /\ rvPc = "done"
    /\ reviewDelayTolerance = TRUE
    /\ openedPullRequests = <<>>
    /\ i = 1
    /\ approved = <<>>
    /\ changes = <<>>
    /\ cur = NoPr
    /\ twice = NoTwice

\* lines 369..374: the early return, or the read of the open pull requests
\* (primary query, then the fallback, then the error)
FetchOpenedPullRequests ==
    /\ rvPc = "start"
    /\ IF ~reviewDelayTolerance
       THEN /\ rvPc' = "done"
            /\ UNCHANGED openedPullRequests
       ELSE \/ /\ \E n \in 0..MaxPRs : \E holes \in SUBSET (1..n) :
                     openedPullRequests' = [q \in 1..n |-> IF q \in holes THEN 0 ELSE q]
               /\ rvPc' = "loop"
            \/ /\ rvPc' = "threw"
               /\ UNCHANGED openedPullRequests
    /\ UNCHANGED <<reviewDelayTolerance, i, approved, changes, cur, twice, lc, histVars, startVars, raceVars, readVars, pairVars>>

\* line 378: an empty slot of the list (0) is skipped
SkipEmptySlot ==
    /\ rvPc = "loop"
    /\ i <= Len(openedPullRequests)
    /\ openedPullRequests[i] = 0
    /\ i' = i + 1
    /\ UNCHANGED <<rvPc, reviewDelayTolerance, openedPullRequests, approved, changes, cur,
                   twice, lc, histVars, startVars, raceVars, readVars, pairVars>>

\* lines 379..381 for openedPullRequests[i]: the reviews of the pull request
\* are read
ReadReviews ==
    /\ rvPc = "loop"
    /\ i <= Len(openedPullRequests)
    /\ openedPullRequests[i] # 0
    /\ \E nodes \in ReviewNodeSeqs :
         cur' = [number |-> openedPullRequests[i], nodes |-> nodes,
                 timelineOk |-> TRUE, requests |-> {},
                 oldEnough |-> FALSE, changesBefore |-> changes]
    /\ rvPc' = "reviews"
    /\ UNCHANGED <<reviewDelayTolerance, openedPullRequests, i, approved, changes,
                   twice, lc, histVars, startVars, raceVars, readVars, pairVars>>

\* a plausible slip: no catch around the timeline read, its error escapes
AfterTimelineReadFatal(ok) == IF ok THEN "loop" ELSE "threw"

\* getReviewRequestsTimeline 304..324: the error is caught and logged, the
\* loop of getAvailableOpenedPullRequests goes on either way
AfterTimelineRead(ok) == "loop"

\* lines 383..407 for the reviews just read: the timeline is read only for a
\* latest CHANGES_REQUESTED review, the age only matters without a review.
\* A second call, made later over the same pull requests, reviews and
\* timelines, classifies the pull request alongside: its timeline read
\* answers or fails on its own, and its clock is not earlier
ClassifyPullRequest ==
    /\ rvPc = "reviews"
    /\ LET nodes == cur.nodes
           status == getLatestReviewStatus(nodes)
           readsTimeline ==
               /\ status.latestReview.state = "CHANGES_REQUESTED"
               /\ status.hasUnresolvedChanges
       IN  \E ok \in (IF readsTimeline THEN BOOLEAN ELSE {TRUE}) :
           \E remote \in (IF readsTimeline THEN SUBSET RequestTimes ELSE {{}}) :
           \E oldEnough \in (IF status.latestReview = NoReview THEN BOOLEAN ELSE {FALSE}) :
           \E okAgain \in (IF readsTimeline THEN BOOLEAN ELSE {TRUE}) :
           \E oldAgain \in (IF status.latestReview # NoReview THEN {FALSE}
                            ELSE IF oldEnough THEN {TRUE} ELSE BOOLEAN) :
             LET out == ClassifyOne(approved, changes, cur.number,
                                    nodes, ok, remote, oldEnough)
                 again == ClassifyOne(twice.approved, twice.changes, cur.number,
                                      nodes, okAgain, remote, oldAgain)
             IN  /\ approved' = out.approved
                 /\ changes' = out.changes
                 /\ cur' = [cur EXCEPT !.timelineOk = ok, !.requests = remote,
                                       !.oldEnough = oldEnough]
                 /\ twice' = [approved |-> again.approved,
                              changes |-> again.changes,
                              failed |-> twice.failed \/ ~ok \/ ~okAgain,
                              aged |-> twice.aged \/ (oldAgain /\ ~oldEnough)]
                 /\ rvPc' = AfterTimelineRead(ok)
    /\ i' = i + 1
    /\ UNCHANGED <<reviewDelayTolerance, openedPullRequests, lc, histVars, startVars, raceVars, readVars, pairVars>>

\* line 381: the GraphQL read of the reviews throws and nothing catches it
ReviewReadThrows ==
    /\ rvPc = "loop"
    /\ i <= Len(openedPullRequests)
    /\ openedPullRequests[i] # 0
    /\ rvPc' = "threw"
    /\ UNCHANGED <<reviewDelayTolerance, openedPullRequests, i, approved, changes, cur,
                   twice, lc, histVars, startVars, raceVars, readVars, pairVars>>

\* line 410
ReturnClassification ==
    /\ rvPc = "loop"
    /\ i > Len(openedPullRequests)
    /\ rvPc' = "done"
    /\ UNCHANGED <<reviewDelayTolerance, openedPullRequests, i, approved, changes, cur,
                   twice, lc, histVars, startVars, raceVars, readVars, pairVars>>

(***************************************************************************)
(* start (start.ts 12..138) with fetchUserIds and handleTaskLimitChecks.   *)
(***************************************************************************)
\* maxConcurrentTasks of the default configuration, role "contributor"
ContributorLimit == 2

PriceLabel == [name |-> "Price: 3 Days", description |-> None]
LowerCaseLabel == [name |-> "price: 3 Days", description |-> ""]
RestrictedLabel == [name |-> "Priority: 2 (Medium)", description |-> "collaborator only"]

LabelLists ==
    {<<>>, <<PriceLabel>>, <<LowerCaseLabel>>, <<RestrictedLabel>>,
     <<RestrictedLabel, PriceLabel>>}

\* label.name.startsWith("Price: ")
StartsWithPrice(name) == name = "Price: 3 Days"

\* a plausible slip: the marker is looked for in the name of the label
IsRestrictedByName(label) == label.name = "collaborator only"

\* label.description?.includes("collaborator only")
IsRestricted(label) == label.description = "collaborator only"

\* a plausible slip: the prefix is matched without regard to case
HasPriceLabelAnyCase(labels) ==
    \E n \in 1..Len(labels) : labels[n].name \in {"Price: 3 Days", "price: 3 Days"}

\* labels.find(...) of line 87 finds a label
HasPriceLabel(labels) == \E n \in 1..Len(labels) : StartsWithPrice(labels[n].name)

NRestricted(labels) == Cardinality({n \in 1..Len(labels) : IsRestricted(labels[n])})

Bodies == {"", "- [ ] write tests", "- [ ] #7", "- [x] #12"}

\* a plausible slip: any checklist item makes the issue a parent
isParentIssueAnyChecklist(body) == body \in {"- [ ] write tests", "- [ ] #7", "- [x] #12"}

\* a plausible slip: the pattern misses ticked boxes, /-\s+\[ \]\s+#\d+/
isParentIssueUntickedOnly(body) == body = "- [ ] #7"

\* isParentIssue 89..92: body.match(/-\s+\[( |x)\]\s+#\d+/)
isParentIssue(body) == body \in {"- [ ] #7", "- [x] #12"}

RNoSender == "Skipping '/start' since there is no sender in the context."
RParent == "Skipping '/start' since the issue is a parent issue"
RClosed == "This issue is closed, please choose another."
RSelfAssigned == "You are already assigned to this task."
ROtherAssigned == "This issue is already assigned. Please choose another unassigned task."
RAllTeammates == "All teammates have reached their max task limit. Please close out some tasks before assigning new ones."
RSelfLimit == "You have reached your max task limit. Please close out some tasks before assigning new ones."
RNoPrice == "No price label is set to calculate the duration"
RCollaborators == "Only collaborators can be assigned to this issue."
RBarred == "you were previously unassigned from this task. You cannot be reassigned."
RUserIds == "Error while fetching user ids"
RAddFailed == "Adding the assignee failed"
RNotAssigned == "We detected that this task was not assigned to anyone. Please report this to the maintainers."
RCommentFailed == "Adding a comment failed!"
RInvalidAppId == "Invalid APP_ID"
RTimeline == "Error while getting assignment events"
RTimeValue == "Invalid config time value"
RUpstream == "upstream call failed"
ROk == "Task assigned successfully"

Pending == [status |-> "pending", reason |-> None, user |-> None]
Thrown(reason, user) == [status |-> "error", reason |-> reason, user |-> user]
Returned == [status |-> "OK", reason |-> ROk, user |-> None]

SeqSet(s) == {s[n] : n \in 1..Len(s)}

\* what the three reads of handleTaskLimitChecks may return for one login:
\* nothing open; one issue and a pull request with changes requested; only
\* approved pull requests
MainLoads ==
    {[assigned |-> 0, approved |-> 0, changes |-> 0, limit |-> ContributorLimit],
     [assigned |-> ContributorLimit - 1, approved |-> 0, changes |-> 1, limit |-> ContributorLimit],
     [assigned |-> 0, approved |-> ContributorLimit, changes |-> 0, limit |-> ContributorLimit]}

\* timelines of the issue a single invocation is run against
MainEvents ==
    [event : {"unassigned"}, actor : {"Alice", "bob", BotLogin}, assignee : {"Alice", "bob"}]
MainTimelines == {<<>>} \cup {<<e>> : e \in MainEvents}

StartIdle ==
    /\ pc = "done"
    /\ hasSender = TRUE
    /\ issue = [body |-> "", closed |-> FALSE, assignees |-> {}, labels |-> <<>>]
    /\ teammates = <<>>
    /\ toAssign = <<>>
    /\ k = 1
    /\ workload = [u \in {} |-> 0]
    /\ collaborator = [u \in {} |-> TRUE]
    /\ userIds = [u \in {} |-> 0]
    /\ remoteAssignees = {}
    /\ written = <<>>
    /\ comments = <<>>
    /\ calls = <<>>
    /\ fault = None
    /\ result = Pending

Finish(res, why) ==
    /\ pc' = "done"
    /\ result' = res
    /\ fault' = why

\* lines 21..32: the sender check and the parent check with its comment
CheckSenderAndParent ==
    /\ pc = "start"
    /\ IF ~hasSender
       THEN /\ Finish(Thrown(RNoSender, None), None)
            /\ UNCHANGED <<comments, calls>>
       ELSE IF issue.body # "" /\ isParentIssue(issue.body)
       THEN /\ calls' = Append(calls, "createComment")
            /\ \/ /\ comments' = Append(comments, "parent")
                  /\ Finish(Thrown(RParent, None), None)
               \/ /\ UNCHANGED comments
                  /\ Finish(Thrown(RCommentFailed, None), "createComment")
       ELSE /\ pc' = "getCommit"
            /\ UNCHANGED <<comments, calls, result, fault>>
    /\ UNCHANGED <<hasSender, issue, teammates, toAssign, k, workload, collaborator,
                   userIds, remoteAssignees, written,
                   lc, histVars, reviewVars, raceVars, readVars, pairVars>>

\* a plausible slip: any assignee counts as the current user
isCurrentUserAssignedAnyone(assignees, login) == assignees # {}

\* line 57: assignees.find((assignee) => assignee?.login === sender.login)
isCurrentUserAssigned(assignees, login) == login \in assignees

\* lines 34..64: the commit lookup (a failure is only logged), the closed
\* check, the already-assigned check, teammates.push(sender.login)
GetCommitAndCheckAssignable ==
    /\ pc = "getCommit"
    /\ calls' = Append(calls, "getCommit")
    /\ IF issue.closed
       THEN /\ Finish(Thrown(RClosed, None), None)
            /\ UNCHANGED <<teammates, k>>
       ELSE IF issue.assignees # {}
       THEN /\ Finish(Thrown(IF isCurrentUserAssigned(issue.assignees, sender)
                              THEN RSelfAssigned ELSE ROtherAssigned, None), None)
            /\ UNCHANGED <<teammates, k>>
       ELSE /\ teammates' = Append(teammates, sender)
            /\ k' = 1
            /\ pc' = "limits"
            /\ UNCHANGED <<result, fault>>
    /\ UNCHANGED <<hasSender, issue, toAssign, workload, collaborator, userIds,
                   remoteAssignees, written, comments,
                   lc, histVars, reviewVars, raceVars, readVars, pairVars>>

\* the login hasUserBeenUnassigned examines: it takes the context only, the
\* username handed over at start.ts 176 is dropped (part_000 24..27)
HistoryLogin(user) == sender

\* a plausible slip: the catch block returns [] as the review-request
\* timeline's does
ReadAssignmentEventsOrEmpty(ok, raw) == [threw |-> FALSE, events |-> IF ok THEN raw ELSE <<>>]

\* getAssignmentEvents 42..47 and 75..78: the timeline read, whose failure
\* is logged and thrown again
ReadAssignmentEvents(ok, raw) == [threw |-> ~ok, events |-> IF ok THEN raw ELSE <<>>]

ReadsOfLimitCheck == <<"pulls", "issues", "role">>

\* one round of the loop of lines 68..72: handleTaskLimitChecks(teammates[k])
HandleTaskLimitChecks ==
    /\ pc = "limits"
    /\ k <= Len(teammates)
    /\ LET user == teammates[k]
       IN  \/ \* one of the three reads throws
              /\ \E n \in 1..Len(ReadsOfLimitCheck) :
                   /\ calls' = calls \o SubSeq(ReadsOfLimitCheck, 1, n)
                   /\ Finish(Thrown(RUpstream, user), ReadsOfLimitCheck[n])
              /\ UNCHANGED <<toAssign, k, workload>>
           \/ \E w \in (IF user \in DOMAIN workload THEN {workload[user]} ELSE MainLoads) :
                /\ workload' = [u \in DOMAIN workload \cup {user} |->
                                   IF u = user THEN w ELSE workload[u]]
                /\ IF LimitReached(w.assigned, w.approved, w.changes, w.limit)
                   THEN \* line 173
                        /\ calls' = calls \o ReadsOfLimitCheck
                        /\ k' = k + 1
                        /\ UNCHANGED <<toAssign, pc, result, fault>>
                   ELSE IF ~AppIdValid(appIdEnv)
                   THEN /\ calls' = calls \o ReadsOfLimitCheck
                        /\ Finish(Thrown(RInvalidAppId, user), "APP_ID")
                        /\ UNCHANGED <<toAssign, k>>
                   ELSE /\ calls' = calls \o ReadsOfLimitCheck \o <<"timeline">>
                        /\ \E ok \in BOOLEAN :
                             LET read == ReadAssignmentEvents(ok, events)
                             IN  /\ fault' = IF ok THEN None ELSE "timeline"
                                 /\ IF read.threw
                                    THEN /\ pc' = "done"
                                         /\ result' = Thrown(RTimeline, user)
                                         /\ UNCHANGED <<toAssign, k>>
                                    ELSE IF hasUserBeenUnassigned(read.events,
                                                HistoryLogin(user), appIdEnv)
                                    THEN /\ pc' = "done"
                                         /\ result' = Thrown(RBarred, user)
                                         /\ UNCHANGED <<toAssign, k>>
                                    ELSE /\ toAssign' = Append(toAssign, user)
                                         /\ k' = k + 1
                                         /\ UNCHANGED <<pc, result>>
    /\ UNCHANGED <<hasSender, issue, teammates, collaborator, userIds,
                   remoteAssignees, written, comments,
                   lc, histVars, reviewVars, raceVars, readVars, pairVars>>

\* lines 74..91: the empty-list errors and the price label
CheckCapacityAndPrice ==
    /\ pc = "limits"
    /\ k > Len(teammates)
    /\ IF Len(toAssign) = 0 /\ Len(teammates) > 1
       THEN /\ Finish(Thrown(RAllTeammates, None), None)
            /\ UNCHANGED k
       ELSE IF Len(toAssign) = 0
       THEN /\ Finish(Thrown(RSelfLimit, None), None)
            /\ UNCHANGED k
       ELSE IF ~HasPriceLabel(issue.labels)
       THEN /\ Finish(Thrown(RNoPrice, None), None)
            /\ UNCHANGED k
       ELSE /\ pc' = "collaborators"
            /\ k' = 1
            /\ UNCHANGED <<result, fault>>
    /\ UNCHANGED <<hasSender, issue, teammates, toAssign, workload, collaborator, userIds,
                   remoteAssignees, written, comments, calls,
                   lc, histVars, reviewVars, raceVars, readVars, pairVars>>

\* lines 94..104: one isUserCollaborator call; every restricted label runs
\* the inner loop over toAssign once more
IsUserCollaborator ==
    /\ pc = "collaborators"
    /\ k <= NRestricted(issue.labels) * Len(toAssign)
    /\ calls' = Append(calls, "collaborator")
    /\ LET user == toAssign[((k - 1) % Len(toAssign)) + 1]
       IN  \/ /\ Finish(Thrown(RUpstream, user), "collaborator")
              /\ UNCHANGED <<k, collaborator>>
           \/ \E yes \in (IF user \in DOMAIN collaborator THEN {collaborator[user]}
                                                          ELSE BOOLEAN) :
                /\ collaborator' = [u \in DOMAIN collaborator \cup {user} |->
                                       IF u = user THEN yes ELSE collaborator[u]]
                /\ IF yes
                   THEN /\ k' = k + 1
                        /\ UNCHANGED <<pc, result, fault>>
                   ELSE /\ Finish(Thrown(RCollaborators, user), None)
                        /\ UNCHANGED k
    /\ UNCHANGED <<hasSender, issue, teammates, toAssign, workload, userIds,
                   remoteAssignees, written, comments,
                   lc, histVars, reviewVars, raceVars, readVars, pairVars>>

\* a plausible slip: every() for some()
AllIdsMissing(ids) == \A u \in DOMAIN ids : ids[u] = 0

\* fetchUserIds 151: ids.filter((id) => !id).length > 0
AnyIdMissing(ids) == \E u \in DOMAIN ids : ids[u] = 0

\* lines 106..116: getDeadline, fetchUserIds (140..156) and
\* generateAssignmentComment
FetchUserIds ==
    /\ pc = "collaborators"
    /\ k > NRestricted(issue.labels) * Len(toAssign)
    /\ \/ \* users.getByUsername throws for the n-th user
          /\ \E n \in 1..Len(toAssign) :
               /\ calls' = calls \o [m \in 1..n |-> "getByUsername"]
               /\ Finish(Thrown(RUpstream, toAssign[n]), "getByUsername")
          /\ UNCHANGED userIds
       \/ /\ calls' = calls \o [m \in 1..Len(toAssign) |-> "getByUsername"]
          /\ \E ids \in [SeqSet(toAssign) -> BOOLEAN] :
               /\ userIds' = [u \in SeqSet(toAssign) |-> IF ids[u] THEN ActorIdOf(u) ELSE 0]
               /\ IF AnyIdMissing(userIds')
                  THEN Finish(Thrown(RUserIds, None), None)
                  ELSE \/ /\ pc' = "addAssignees"
                          /\ UNCHANGED <<result, fault>>
                       \/ Finish(Thrown(RUpstream, None), "generateAssignmentComment")
    /\ UNCHANGED <<hasSender, issue, teammates, toAssign, k, workload, collaborator,
                   remoteAssignees, written, comments,
                   lc, histVars, reviewVars, raceVars, readVars, pairVars>>

\* a plausible slip: the catch block logs the error and does not rethrow
AfterWriteSwallowing(ok) == "confirm"

\* a plausible slip: the catch block issues the write again
AfterWriteRetrying(ok) == IF ok THEN "confirm" ELSE "addAssignees"

\* addAssignees 242..253: a failed write is rethrown (250) and ends start,
\* a successful one goes on to confirmMultiAssignment
AfterWrite(ok) == IF ok THEN "confirm" ELSE "done"

\* line 119 with addAssignees 239..251: the write.  The platform adds every
\* login, or only the first, or silently none; or the call fails
AddAssignees ==
    /\ pc = "addAssignees"
    /\ calls' = Append(calls, "addAssignees")
    /\ written' = Append(written, toAssign)
    /\ \/ /\ \E added \in {SeqSet(toAssign), {toAssign[1]}, {}} :
               remoteAssignees' = remoteAssignees \cup added
          /\ pc' = AfterWrite(TRUE)
          /\ UNCHANGED <<result, fault>>
       \/ /\ pc' = AfterWrite(FALSE)
          /\ result' = Thrown(RAddFailed, None)
          /\ fault' = "addAssignees"
          /\ UNCHANGED remoteAssignees
    /\ UNCHANGED <<hasSender, issue, teammates, toAssign, k, workload, collaborator,
                   userIds, comments,
                   lc, histVars, reviewVars, raceVars, readVars, pairVars>>

\* line 253 with confirmMultiAssignment 210..237
ConfirmMultiAssignment ==
    /\ pc = "confirm"
    /\ IF Len(toAssign) < 2
       THEN /\ pc' = "comment"
            /\ UNCHANGED <<calls, comments, result, fault>>
       ELSE \/ /\ calls' = Append(calls, "issues.get")
               /\ Finish(Thrown(RUpstream, None), "issues.get")
               /\ UNCHANGED comments
            \/ IF remoteAssignees = {}
               THEN /\ calls' = Append(calls, "issues.get")
                    /\ Finish(Thrown(RNotAssigned, None), None)
                    /\ UNCHANGED comments
               ELSE \E isPrivate \in BOOLEAN :
                      IF isPrivate /\ Cardinality(remoteAssignees) <= 1
                      THEN /\ calls' = calls \o <<"issues.get", "createComment">>
                           /\ \/ /\ comments' = Append(comments, "private")
                                 /\ pc' = "comment"
                                 /\ UNCHANGED <<result, fault>>
                              \/ /\ Finish(Thrown(RCommentFailed, None), "createComment")
                                 /\ UNCHANGED comments
                      ELSE /\ calls' = Append(calls, "issues.get")
                           /\ pc' = "comment"
                           /\ UNCHANGED <<comments, result, fault>>
    /\ UNCHANGED <<hasSender, issue, teammates, toAssign, k, workload, collaborator,
                   userIds, remoteAssignees, written,
                   lc, histVars, reviewVars, raceVars, readVars, pairVars>>

\* lines 121..137: the stale check, the confirmation comment, the result
PostAssignmentComment ==
    /\ pc = "comment"
    /\ \/ \* getTimeValue(taskStaleTimeoutDuration) throws
          /\ Finish(Thrown(RTimeValue, None), "taskStaleTimeoutDuration")
          /\ UNCHANGED <<calls, comments>>
       \/ /\ calls' = Append(calls, "createComment")
          /\ \/ /\ comments' = Append(comments, "assignment")
                /\ Finish(Returned, None)
             \/ /\ UNCHANGED comments
                /\ Finish(Thrown(RCommentFailed, None), "createComment")
    /\ UNCHANGED <<hasSender, issue, teammates, toAssign, k, workload, collaborator,
                   userIds, remoteAssignees, written,
                   lc, histVars, reviewVars, raceVars, readVars, pairVars>>

(***************************************************************************)
(* A second invocation of start on the same issue (start.ts 53..62, 119,   *)
(* 123..137), run for another requester while the first one is under way.  *)
(***************************************************************************)
RivalLogin == "dave"

RaceIdle == rival = [pc |-> "idle", status |-> "pending", wroteAt |-> None]

\* lines 53..62 of the second invocation: its payload carries the issue as
\* it was when its own '/start' comment was created
RivalCheckAssignable ==
    /\ rival.pc = "start"
    /\ IF issue.assignees # {}
       THEN rival' = [rival EXCEPT !.pc = "done", !.status = "error"]
       ELSE rival' = [rival EXCEPT !.pc = "addAssignees"]
    /\ UNCHANGED <<lc, histVars, reviewVars, startVars, readVars, pairVars>>

\* line 119 of the second invocation (addAssignees 239..251): the platform
\* adds the login to the assignees the issue has, or the call fails
RivalAddAssignees ==
    /\ rival.pc = "addAssignees"
    /\ \/ /\ remoteAssignees' = remoteAssignees \cup {RivalLogin}
          /\ rival' = [rival EXCEPT !.pc = "comment", !.wroteAt = pc]
       \/ /\ rival' = [rival EXCEPT !.pc = "done", !.status = "error"]
          /\ UNCHANGED remoteAssignees
    /\ UNCHANGED <<lc, histVars, reviewVars, readVars, pairVars,
                   pc, hasSender, issue, teammates, toAssign, k, workload, collaborator,
                   userIds, written, comments, calls, fault, result>>

\* lines 121..137 of the second invocation
RivalPostComment ==
    /\ rival.pc = "comment"
    /\ \E status \in {"OK", "error"} :
         rival' = [rival EXCEPT !.pc = "done", !.status = status]
    /\ UNCHANGED <<lc, histVars, reviewVars, startVars, readVars, pairVars>>

(***************************************************************************)
(* The reads with a fallback: getAssignedIssues (part_000 94..114) and     *)
(* getAllPullRequestsWithRetry (272..283).                                 *)
(***************************************************************************)
ReadKinds == {"issues", "pulls"}

\* the items of a search: state and assignee are what line 107 looks at
SearchItem == [state : {"open", "closed"}, assignee : {"Alice", "bob"}]
SearchResults == UNION {[1..n -> SearchItem] : n \in 0..MaxCount}

\* the login the read is made for
ReadFor == "Alice"

\* lines 105..109: the filter applied to the primary result of the issues
\* read; the pull-request read returns the items as they are (266)
FilterPrimary(which, items) ==
    IF which = "issues"
    THEN SelectSeq(items, LAMBDA it : it.state = "open" /\ it.assignee = ReadFor)
    ELSE items

\* the fallback functions issue one query of their own and return its items
FallbackQueries == <<"fallback">>

\* a plausible slip: the catch block calls the function itself again
AfterQueryRetrying(at, ok) == IF ok THEN "done" ELSE "catch"

\* try / catch of 97..113 and 277..282: a failed primary enters the catch
\* block, a failed fallback is not caught
AfterQuery(at, ok) == IF ok THEN "done" ELSE IF at = "start" THEN "catch" ELSE "threw"

ReadIdle == rd = [which |-> "issues", pc |-> "done", queries |-> <<>>,
                  outcomes |-> <<>>, used |-> None, value |-> <<>>]

\* lines 98..109 / 278: the primary query
PrimaryQuery ==
    /\ rd.pc = "start"
    /\ \/ \E items \in SearchResults :
            rd' = [rd EXCEPT !.pc = AfterQuery(rd.pc, TRUE),
                             !.queries = Append(@, "primary"),
                             !.outcomes = Append(@, TRUE),
                             !.used = "primary",
                             !.value = FilterPrimary(rd.which, items)]
       \/ rd' = [rd EXCEPT !.pc = AfterQuery(rd.pc, FALSE),
                           !.queries = Append(@, "primary"),
                           !.outcomes = Append(@, FALSE)]
    /\ UNCHANGED <<lc, histVars, reviewVars, startVars, raceVars, pairVars>>

\* lines 110..113 / 279..282: the catch block returns what the fallback
\* returns, or rejects with the fallback's error
FallbackQuery ==
    /\ rd.pc = "catch"
    /\ \/ \E items \in SearchResults :
            rd' = [rd EXCEPT !.pc = AfterQuery(rd.pc, TRUE),
                             !.queries = @ \o FallbackQueries,
                             !.outcomes = Append(@, TRUE),
                             !.used = "fallback",
                             !.value = items]
       \/ rd' = [rd EXCEPT !.pc = AfterQuery(rd.pc, FALSE),
                           !.queries = @ \o FallbackQueries,
                           !.outcomes = Append(@, FALSE)]
    /\ UNCHANGED <<lc, histVars, reviewVars, startVars, raceVars, pairVars>>

(***************************************************************************)
(* Two invocations of start on two different issues (start.ts 64..72,      *)
(* 118..119, 158..174).  Invocation n works on issue n; the issues are     *)
(* open, priced, unassigned and not parents, and nobody has a history on   *)
(* them.                                                                   *)
(***************************************************************************)
Invocations == {1, 2}
PairLogins == {"Alice", "bob"}

PairIdle == pair = [pc |-> [n \in Invocations |-> "done"],
                    teammates |-> [n \in Invocations |-> <<>>],
                    k |-> [n \in Invocations |-> 1],
                    toAssign |-> [n \in Invocations |-> <<>>],
                    status |-> [n \in Invocations |-> "pending"],
                    assignees |-> [n \in Invocations |-> {}],
                    remote |-> [u \in {} |-> 0],
                    atWrite |-> [n \in Invocations |-> [u \in {} |-> 0]]]

\* what the platform holds for a login besides the two issues: open issues
\* assigned elsewhere, approved and changes-requested pull requests, limit
PairRemotes == [assigned : Counts, approved : 0..1, changes : 0..1, limit : Limits]

\* getAssignedIssues(username).length at this moment: the issues assigned
\* elsewhere and those of the two issues that carry the login
AssignedIssuesOf(rem, held, u) ==
    rem[u].assigned + Cardinality({n \in Invocations : u \in held[n]})

\* lines 68..72 with 158..174 for the contributor at position k of
\* invocation n; lines 74..84 once the loop is over
PairHandleTaskLimitChecks(n) ==
    /\ pair.pc[n] = "check"
    /\ LET u == pair.teammates[n][pair.k[n]]
       IN  \E r \in PairRemotes :
             /\ u \in DOMAIN pair.remote => r = pair.remote[u]
             /\ LET rem == [v \in DOMAIN pair.remote \cup {u} |->
                               IF v = u THEN r ELSE pair.remote[v]]
                     passed == ~LimitReached(AssignedIssuesOf(rem, pair.assignees, u),
                                             r.approved, r.changes, r.limit)
                     assign == IF passed THEN Append(pair.toAssign[n], u)
                               ELSE pair.toAssign[n]
                     last == pair.k[n] = Len(pair.teammates[n])
                 IN  pair' = [pair EXCEPT
                        !.remote = rem,
                        !.toAssign[n] = assign,
                        !.k[n] = @ + 1,
                        !.pc[n] = IF ~last THEN "check"
                                  ELSE IF assign = <<>> THEN "done" ELSE "addAssignees",
                        !.status[n] = IF last /\ assign = <<>> THEN "error" ELSE @]
    /\ UNCHANGED <<lc, histVars, reviewVars, startVars, raceVars, readVars>>

\* line 119 of invocation n (addAssignees 239..251): the platform adds the
\* logins to the issue, or the call fails; atWrite keeps what
\* getAssignedIssues would have returned for each login just before
PairAddAssignees(n) ==
    /\ pair.pc[n] = "addAssignees"
    /\ \/ pair' = [pair EXCEPT
              !.assignees[n] = @ \cup {pair.toAssign[n][j] : j \in 1..Len(pair.toAssign[n])},
              !.atWrite[n] = [u \in {pair.toAssign[n][j] : j \in 1..Len(pair.toAssign[n])} |->
                                AssignedIssuesOf(pair.remote, pair.assignees, u)],
              !.pc[n] = "done",
              !.status[n] = "OK"]
       \/ pair' = [pair EXCEPT !.pc[n] = "done", !.status[n] = "error"]
    /\ UNCHANGED <<lc, histVars, reviewVars, startVars, raceVars, readVars>>

(***************************************************************************)
(* Specifications.                                                         *)
(***************************************************************************)
InitLimit ==
    /\ LimitIdle
    /\ HistIdle
    /\ ReviewIdle
    /\ StartIdle
    /\ RaceIdle
    /\ ReadIdle
    /\ PairIdle

NextLimit == EvaluateLimit

SpecLimit == InitLimit /\ [][NextLimit]_vars

InitHistory ==
    /\ LimitIdle
    /\ sender \in {"Alice", "bob"}
    /\ appIdEnv \in {0, BotId}
    /\ events = <<>>
    /\ hist = [checked |-> FALSE, outcome |-> None]
    /\ ReviewIdle
    /\ StartIdle
    /\ RaceIdle
    /\ ReadIdle
    /\ PairIdle

NextHistory == AppendEvent \/ CheckHistory

SpecHistory == InitHistory /\ [][NextHistory]_vars

InitReview ==
    /\ LimitIdle
    /\ HistIdle
    /\ rvPc = "start"
    /\ reviewDelayTolerance \in BOOLEAN
    /\ openedPullRequests = <<>>
    /\ i = 1
    /\ approved = <<>>
    /\ changes = <<>>
    /\ cur = NoPr
    /\ twice = NoTwice
    /\ StartIdle
    /\ RaceIdle
    /\ ReadIdle
    /\ PairIdle

NextReview ==
    \/ FetchOpenedPullRequests
    \/ SkipEmptySlot
    \/ ReadReviews
    \/ ClassifyPullRequest
    \/ ReviewReadThrows
    \/ ReturnClassification

SpecReview == InitReview /\ [][NextReview]_vars

RECURSIVE SeqsUpTo(_, _)
SeqsUpTo(S, n) ==
    IF n = 0 THEN {<<>>}
    ELSE LET shorter == SeqsUpTo(S, n - 1)
         IN  shorter \cup {Append(t, x) : t \in shorter, x \in S}

Init ==
    /\ LimitIdle
    /\ ReviewIdle
    /\ sender = "Alice"
    /\ appIdEnv \in {0, BotId}
    /\ events \in MainTimelines
    /\ hist = [checked |-> FALSE, outcome |-> None]
    /\ pc = "start"
    /\ hasSender \in BOOLEAN
    /\ issue \in [body : Bodies, closed : BOOLEAN,
                  assignees : {{}, {"Alice"}, {"bob"}}, labels : LabelLists]
    /\ teammates \in SeqsUpTo(Humans, MaxTeammates)
    /\ toAssign = <<>>
    /\ k = 1
    /\ workload = [u \in {} |-> 0]
    /\ collaborator = [u \in {} |-> TRUE]
    /\ userIds = [u \in {} |-> 0]
    /\ remoteAssignees = issue.assignees
    /\ written = <<>>
    /\ comments = <<>>
    /\ calls = <<>>
    /\ fault = None
    /\ result = Pending
    /\ RaceIdle
    /\ ReadIdle
    /\ PairIdle

Next ==
    \/ CheckSenderAndParent
    \/ GetCommitAndCheckAssignable
    \/ HandleTaskLimitChecks
    \/ CheckCapacityAndPrice
    \/ IsUserCollaborator
    \/ FetchUserIds
    \/ AddAssignees
    \/ ConfirmMultiAssignment
    \/ PostAssignmentComment

Spec == Init /\ [][Next]_vars

\* start is a single async function: every step is the continuation of an
\* awaited call, which runs once the call has answered or failed
SpecLive == Init /\ [][Next]_vars /\ WF_vars(Next)

\* two invocations on an open, priced, non-parent issue
InitRace ==
    /\ LimitIdle
    /\ ReviewIdle
    /\ ReadIdle
    /\ PairIdle
    /\ sender = "Alice"
    /\ appIdEnv = BotId
    /\ events = <<>>
    /\ hist = [checked |-> FALSE, outcome |-> None]
    /\ pc = "start"
    /\ hasSender = TRUE
    /\ issue \in [body : {""}, closed : {FALSE}, assignees : {{}, {"bob"}},
                  labels : {<<PriceLabel>>, <<RestrictedLabel, PriceLabel>>}]
    /\ teammates \in SeqsUpTo({"bob"}, 1)
    /\ toAssign = <<>>
    /\ k = 1
    /\ workload = [u \in {} |-> 0]
    /\ collaborator = [u \in {} |-> TRUE]
    /\ userIds = [u \in {} |-> 0]
    /\ remoteAssignees = issue.assignees
    /\ written = <<>>
    /\ comments = <<>>
    /\ calls = <<>>
    /\ fault = None
    /\ result = Pending
    /\ rival = [pc |-> "start", status |-> "pending", wroteAt |-> None]

NextRace ==
    \/ CheckSenderAndParent
    \/ GetCommitAndCheckAssignable
    \/ HandleTaskLimitChecks
    \/ CheckCapacityAndPrice
    \/ IsUserCollaborator
    \/ FetchUserIds
    \/ AddAssignees
    \/ ConfirmMultiAssignment
    \/ PostAssignmentComment
    \/ RivalCheckAssignable
    \/ RivalAddAssignees
    \/ RivalPostComment

SpecRace == InitRace /\ [][NextRace]_vars

\* two invocations, each naming one or more of two contributors
InitPair ==
    /\ LimitIdle
    /\ HistIdle
    /\ ReviewIdle
    /\ StartIdle
    /\ RaceIdle
    /\ ReadIdle
    /\ \E t \in [Invocations -> SeqsUpTo(PairLogins, MaxTeammates) \ {<<>>}] :
          pair = [pc |-> [n \in Invocations |-> "check"],
                  teammates |-> t,
                  k |-> [n \in Invocations |-> 1],
                  toAssign |-> [n \in Invocations |-> <<>>],
                  status |-> [n \in Invocations |-> "pending"],
                  assignees |-> [n \in Invocations |-> {}],
                  remote |-> [u \in {} |-> 0],
                  atWrite |-> [n \in Invocations |-> [u \in {} |-> 0]]]

NextPair ==
    \/ \E n \in Invocations : PairHandleTaskLimitChecks(n)
    \/ \E n \in Invocations : PairAddAssignees(n)

SpecPair == InitPair /\ [][NextPair]_vars

InitReads ==
    /\ LimitIdle
    /\ HistIdle
    /\ ReviewIdle
    /\ StartIdle
    /\ RaceIdle
    /\ PairIdle
    /\ rd \in [which : ReadKinds, pc : {"start"}, queries : {<<>>},
               outcomes : {<<>>}, used : {None}, value : {<<>>}]

NextReads == PrimaryQuery \/ FallbackQuery

SpecReads == InitReads /\ [][NextReads]_vars

(***************************************************************************)
(* Claims.                                                                 *)
(***************************************************************************)
AdjOfLc == lc.assigned - lc.approved + lc.changes

\* C2: the task-limit check passes if and only if
\* |assignedIssues - approvedPRs + changesRequestedPRs| < limit; at
\* adjustedCount = limit the contributor is ineligible, at limit - 1 eligible,
\* and a negative adjustedCount of absolute value >= limit is ineligible.
ThmC2_LimitComparison ==
    /\ lc.passed <=> (AdjOfLc < lc.limit /\ -AdjOfLc < lc.limit)
    /\ AdjOfLc = lc.limit => ~lc.passed
    /\ AdjOfLc = lc.limit - 1 => lc.passed
    /\ (AdjOfLc < 0 /\ -AdjOfLc >= lc.limit) => ~lc.passed

\* the boundary case: pull requests of both kinds are counted and the
\* adjusted count lands exactly on the limit
WitC2_AtLimit ==
    /\ lc.approved > 0 /\ lc.changes > 0
    /\ AdjOfLc = lc.limit
    /\ ~lc.passed

\* an unassignment of the contributor by the bot or by somebody else
BarringEvent(e, who, appId) ==
    /\ e.event = "unassigned"
    /\ e.assignee = who
    /\ e.actor # None
    /\ (ActorIdOf(e.actor) = appId \/ e.actor # who)

\* C3: the history check of a contributor is true if and only if the timeline
\* holds an 'unassigned' event whose assignee is the contributor and whose
\* actor is the bot (APP_ID) or anyone but the contributor; an invalid APP_ID
\* makes the check throw instead.
ThmC3_HistoryCheck ==
    hist.checked =>
        IF ~AppIdValid(appIdEnv) THEN hist.outcome = "throw"
        ELSE (hist.outcome = "true") <=>
                \E j \in 1..Len(events) : BarringEvent(events[j], sender, appIdEnv)

\* the contributor removed themselves, nobody else did: not barred
WitC3_SelfUnassigned ==
    /\ hist.checked /\ hist.outcome = "false"
    /\ sender = "Alice"
    /\ \E j \in 1..Len(events) :
          /\ events[j].event = "unassigned"
          /\ events[j].assignee = sender /\ events[j].actor = sender

\* the check as it would answer on the first n events of the timeline
BarredOnPrefix(n) ==
    AppIdValid(appIdEnv) /\ hasUserBeenUnassigned(SubSeq(events, 1, n), sender, appIdEnv)

\* C5: barring is a one-way gate: if the check is true for some timeline, the
\* check made on any timeline obtained by appending further events to it is
\* true as well.
ThmC5_BarredForever ==
    hist.checked =>
        \A n \in 0..Len(events) : BarredOnPrefix(n) => hist.outcome = "true"

\* barred by an earlier event, and the latest event is a re-assignment or a
\* self-unassignment of the same contributor
WitC5_LaterEvents ==
    /\ hist.checked /\ hist.outcome = "true"
    /\ Len(events) >= 2
    /\ BarredOnPrefix(Len(events) - 1)
    /\ LET last == events[Len(events)]
       IN  /\ last.assignee = sender
           /\ ~BarringEvent(last, sender, appIdEnv)

InSeq(x, s) == \E q \in 1..Len(s) : s[q] = x

CurLatest == cur.nodes[Len(cur.nodes)]

\* the pull request in cur has a review and has been classified
Classified == rvPc # "reviews" /\ cur # NoPr /\ Len(cur.nodes) > 0

\* C6: a pull request is classified by its most recent review: APPROVED gives
\* approved; CHANGES_REQUESTED gives approved if a review-request event read
\* from the timeline is strictly later than the submission of that review,
\* and changes-requested otherwise (an equal or earlier event does not
\* override).
ThmC6_LatestReviewDecides ==
    Classified =>
        /\ CurLatest.state = "APPROVED" =>
              InSeq(cur.number, approved) /\ ~InSeq(cur.number, changes)
        /\ CurLatest.state = "CHANGES_REQUESTED" =>
              IF cur.timelineOk /\ \E t \in cur.requests : t > CurLatest.submittedAt
              THEN InSeq(cur.number, approved) /\ ~InSeq(cur.number, changes)
              ELSE InSeq(cur.number, changes) /\ ~InSeq(cur.number, approved)

\* changes were requested last, and the only review request carries the very
\* timestamp of that review: the pull request stays changes-requested
WitC6_EqualTimestamp ==
    /\ Classified
    /\ CurLatest.state = "CHANGES_REQUESTED"
    /\ cur.timelineOk
    /\ cur.requests = {CurLatest.submittedAt}
    /\ InSeq(cur.number, changes)

\* the pull request in cur has no review and has been classified
ClassifiedUnreviewed == rvPc # "reviews" /\ cur # NoPr /\ Len(cur.nodes) = 0

\* C18: a pull request without any review is counted as approved if and
\* only if its age has reached reviewDelayTolerance; a younger one is in
\* neither list.
CexC18_UnreviewedByAge ==
    ClassifiedUnreviewed =>
        /\ InSeq(cur.number, approved) <=> cur.oldEnough
        /\ ~InSeq(cur.number, changes)

\* C21: a failed read of the review-request timeline is not fatal and counts
\* as an empty timeline: the pull request, whose latest review requested
\* changes, stays in changes whatever the timeline holds, and the
\* classification goes on to its end.
ThmC21_TimelineFailureDegrades ==
    (Classified /\ ~cur.timelineOk) =>
        /\ CurLatest.state = "CHANGES_REQUESTED"
        /\ InSeq(cur.number, changes) /\ ~InSeq(cur.number, approved)
        /\ i > Len(openedPullRequests) => rvPc \in {"loop", "done"}

\* the timeline holds a later review request but could not be read; the
\* classification has returned
WitC21_UnreadRerequest ==
    /\ Classified /\ ~cur.timelineOk
    /\ \E t \in cur.requests : t > CurLatest.submittedAt
    /\ rvPc = "done"
    /\ InSeq(cur.number, changes)

PositionsOf(q, s) == {n \in 1..Len(s) : s[n] = q}

\* C27: every open pull request is in at most one of the approved and
\* changes lists and at most once in it; an iteration leaves the changes
\* list as it found it or with its own pull request appended, so the pop of
\* the re-request override removes the pull request pushed in the same
\* iteration and nothing else; approved.length + changes.length never
\* exceeds the number of open pull requests.
ThmC27_DisjointLists ==
    /\ \A q \in 1..MaxPRs :
          Cardinality(PositionsOf(q, approved)) + Cardinality(PositionsOf(q, changes)) <= 1
    /\ Len(approved) + Len(changes)
          <= Cardinality({n \in 1..Len(openedPullRequests) : openedPullRequests[n] # 0})
    /\ (cur # NoPr /\ rvPc # "reviews") =>
          /\ changes \in {cur.changesBefore, Append(cur.changesBefore, cur.number)}
          /\ (cur.number \in SeqSet(approved)) => changes = cur.changesBefore

\* the override fired for the second pull request while the first one was
\* in the changes list
WitC27_PopKeepsEarlier ==
    /\ rvPc = "done"
    /\ cur.number = 2 /\ cur.changesBefore = <<1>>
    /\ Len(cur.nodes) > 0
    /\ CurLatest.state = "CHANGES_REQUESTED"
    /\ approved = <<2>> /\ changes = <<1>>

\* C28: a pull request whose latest review is neither APPROVED nor
\* CHANGES_REQUESTED is counted as approved when none of the reviews read
\* (the last 10) is CHANGES_REQUESTED, and is in neither list when one is.
ThmC28_OtherLatestState ==
    (Classified /\ CurLatest.state \notin {"APPROVED", "CHANGES_REQUESTED"}) =>
        IF \E q \in 1..Len(cur.nodes) : cur.nodes[q].state = "CHANGES_REQUESTED"
        THEN ~InSeq(cur.number, approved) /\ ~InSeq(cur.number, changes)
        ELSE InSeq(cur.number, approved) /\ ~InSeq(cur.number, changes)

\* a comment-only review came after a review that requested changes: the
\* pull request is in neither list
WitC28_CommentAfterChanges ==
    /\ Classified
    /\ Len(cur.nodes) = 2
    /\ cur.nodes[1].state = "CHANGES_REQUESTED"
    /\ cur.nodes[2].state = "COMMENTED"
    /\ ~InSeq(cur.number, approved) /\ ~InSeq(cur.number, changes)

(***************************************************************************)
(* Claims about one invocation of start (Spec).                            *)
(***************************************************************************)
Done == pc = "done"
Rejected == Done /\ result.status = "error"
Committed == Done /\ result.status = "OK"

\* the bodies that hold a checklist item referring to an issue number
ParentBodies == {"- [ ] #7", "- [x] #12"}
IsParentItem == issue.body \in ParentBodies

\* the label names that start with "Price: "
PriceNames == {"Price: 3 Days"}
ItemHasPrice == \E n \in 1..Len(issue.labels) : issue.labels[n].name \in PriceNames
ItemIsRestricted ==
    \E n \in 1..Len(issue.labels) : issue.labels[n].description = "collaborator only"

ReadCalls == {"getCommit", "pulls", "issues", "role", "timeline", "collaborator",
              "getByUsername", "issues.get"}
NoAssigneeWrite ==
    /\ written = <<>>
    /\ ~InSeq("addAssignees", calls)
    /\ remoteAssignees = issue.assignees

\* the contributor was unassigned from this issue by the bot or by someone else
BarredOnItem(u) == \E j \in 1..Len(events) : BarringEvent(events[j], u, appIdEnv)

\* the counts read for u leave u under the limit
UnderLimit(u) ==
    /\ u \in DOMAIN workload
    /\ LET w == workload[u]
           adj == w.assigned - w.approved + w.changes
       IN  adj < w.limit /\ -adj < w.limit

\* requester plus teammates, in the order start evaluates them, without the
\* contributors over their limit
PassedLimit == SelectSeq(teammates, UnderLimit)

CexC4_NoBarredAssignee ==
    Committed => \A u \in SeqSet(toAssign) : ~BarredOnItem(u)

\* C7: a contributor over the limit is dropped, not fatal: a committed
\* request wrote exactly the contributors that passed the limit check, and
\* the two limit rejections occur only when nobody passed.
ThmC7_OverLimitDropped ==
    /\ Committed => (written = <<PassedLimit>> /\ PassedLimit # <<>>)
    /\ (Rejected /\ result.reason \in {RAllTeammates, RSelfLimit}) => PassedLimit = <<>>
    /\ (Done /\ k > Len(teammates) /\ PassedLimit # <<>> /\ fault = None
          /\ ItemHasPrice
          /\ (\A u \in SeqSet(teammates) \cup {sender} : ~BarredOnItem(u))
          /\ (\A u \in DOMAIN collaborator : collaborator[u])
          /\ DOMAIN userIds # {} /\ (\A u \in DOMAIN userIds : userIds[u] # 0)
          /\ (Len(toAssign) >= 2 => remoteAssignees # {}))
         => Committed

\* the requester is the only one over the limit, the teammates are assigned
WitC7_RequesterDropped ==
    /\ Committed
    /\ Len(teammates) > 1
    /\ ~UnderLimit(sender)
    /\ sender \notin SeqSet(toAssign)
    /\ written = <<toAssign>>

\* the inputs of the plain case: open, not a parent, unassigned, priced,
\* unrestricted, requester not barred
PlainRequest ==
    /\ hasSender
    /\ ~IsParentItem /\ ~issue.closed /\ issue.assignees = {}
    /\ ItemHasPrice /\ ~ItemIsRestricted
    /\ ~BarredOnItem(sender)

\* addAssignees was called, and a comment was created after it
CommentAfterWrite ==
    \E a \in 1..Len(calls) : \E c \in 1..Len(calls) :
        a < c /\ calls[a] = "addAssignees" /\ calls[c] = "createComment"

\* C8: in the plain case with no teammate named and the requester under the
\* limit, with every remote call answering (the requester
\* has an identifier) and a valid configuration, start ends Committed: the
\* assignee write carries exactly the requester, the confirmation comment is
\* created after the write and the status is OK.
ThmC8_PlainCommit ==
    (Done /\ PlainRequest /\ teammates \in {<<>>, <<sender>>} /\ fault = None
       /\ (sender \in DOMAIN workload => UnderLimit(sender))
       /\ (sender \in DOMAIN userIds => userIds[sender] # 0))
      => /\ Committed
         /\ written = <<(<<sender>>)>>
         /\ comments = <<"assignment">>
         /\ CommentAfterWrite

WitC8_PlainCommitted ==
    /\ Committed /\ PlainRequest /\ teammates = <<sender>>
    /\ issue.body = "- [ ] write tests"
    /\ calls[Len(calls)] = "createComment"

\* C9 as stated: without a price label start ends Rejected and has made no
\* remote write, neither an assignee write nor a comment.
CexC9_NoWriteAtAll ==
    (Done /\ ~ItemHasPrice) =>
        /\ Rejected
        /\ NoAssigneeWrite
        /\ ~InSeq("createComment", calls)

\* C9, amended: without a price label start ends Rejected and has made no
\* assignee write; it has created no comment either, unless the item is a
\* parent item, whose rejection creates the parent notice.
ThmC9_NoPriceLabel ==
    (Done /\ ~ItemHasPrice) =>
        /\ Rejected
        /\ NoAssigneeWrite
        /\ IF IsParentItem /\ hasSender
           THEN comments \in {<<>>, <<"parent">>}
           ELSE ~InSeq("createComment", calls) /\ comments = <<>>

\* rejected for the price label, with contributors ready to be assigned
WitC9_PriceMissing ==
    /\ Rejected /\ result.reason = RNoPrice
    /\ issue.labels = <<LowerCaseLabel>>
    /\ toAssign # <<>>
    /\ calls # <<>> /\ comments = <<>>

\* C10: a parent item is always rejected, before any remote read is issued
\* and without an assignee write.
ThmC10_ParentRejectedFirst ==
    IsParentItem =>
        /\ pc \in {"start", "done"}
        /\ Done => Rejected
        /\ \A n \in 1..Len(calls) : calls[n] \notin ReadCalls
        /\ NoAssigneeWrite

\* the parent notice was posted and the request rejected as a parent item
WitC10_ParentNotice ==
    /\ Rejected /\ IsParentItem
    /\ result.reason = RParent
    /\ calls = <<"createComment">>
    /\ issue.closed /\ issue.assignees # {}

\* C11: on an item with a 'collaborator only' label, a remaining contributor
\* who is not a collaborator rejects the whole request without an assignee
\* write, and a committed request has had every assigned contributor
\* answered as a collaborator (never a subset made of the collaborators).
ThmC11_RestrictedAllOrNothing ==
    /\ (\E u \in DOMAIN collaborator : ~collaborator[u]) =>
          /\ NoAssigneeWrite
          /\ Done => (Rejected /\ result.reason = RCollaborators)
    /\ (Committed /\ ItemIsRestricted) =>
          \A u \in SeqSet(toAssign) : u \in DOMAIN collaborator /\ collaborator[u]

\* one contributor is a collaborator, the next one is not: nobody is assigned
WitC11_OneOutsider ==
    /\ Rejected /\ result.reason = RCollaborators
    /\ ItemIsRestricted
    /\ Len(toAssign) >= 2
    /\ \E u \in DOMAIN collaborator : collaborator[u]
    /\ \E u \in DOMAIN collaborator : ~collaborator[u]
    /\ written = <<>> /\ remoteAssignees = {}

\* C12: the commit is all-or-nothing: a run that ended is either a success
\* with every contributor of the assignment set an assignee of the item, or
\* a failure of an invocation that has added no assignee.
CexC12_AllOrNothing ==
    Done => \/ Committed /\ SeqSet(toAssign) \subseteq remoteAssignees
            \/ Rejected /\ remoteAssignees = issue.assignees

\* C14: the gates fire in the order parent, closed, already assigned, empty
\* assignment set, price label, restricted label, history bar, identifiers:
\* an open, unassigned, non-parent item without a price label whose
\* requester is barred is rejected by the empty-set gate or for the missing
\* price label, not for the history bar.
CexC14_PriceBeforeHistory ==
    (Done /\ hasSender /\ fault = None
       /\ ~IsParentItem /\ ~issue.closed /\ issue.assignees = {}
       /\ ~ItemHasPrice /\ BarredOnItem(sender))
      => /\ Rejected
         /\ result.reason \in {RAllTeammates, RSelfLimit, RNoPrice}

\* how often login u occurs in sequence s
Occurrences(u, s) == Cardinality({n \in 1..Len(s) : s[n] = u})

\* C15: the contributors evaluated are the requester plus the teammates
\* without duplicates: once start has built the list, the requester is in
\* it exactly once, and no list passed to the assignee write holds a login
\* twice.
CexC15_Deduplicated ==
    /\ pc \in {"limits", "collaborators", "addAssignees", "confirm", "comment"} =>
          Occurrences(sender, teammates) = 1
    /\ \A n \in 1..Len(written) : \A u \in SeqSet(written[n]) :
          Occurrences(u, written[n]) = 1

\* a teammate other than the requester was named
OtherTeammateNamed == \E u \in SeqSet(teammates) : u # sender

\* C16: when no contributor remains after the limit checks the request is
\* rejected with no remote write, with the 'All teammates' reason exactly
\* when a teammate other than the requester was named and with the 'You
\* have reached' reason when the requester was the only contributor.
CexC16_EmptySetReason ==
    (Rejected /\ result.reason \in {RAllTeammates, RSelfLimit}) =>
        /\ PassedLimit = <<>>
        /\ NoAssigneeWrite
        /\ comments = <<>> /\ ~InSeq("createComment", calls)
        /\ result.reason = RAllTeammates <=> OtherTeammateNamed

\* C17: when the identifier lookup of a remaining contributor returns no
\* identifier the whole request fails before the assignee write: nobody is
\* added and no confirmation comment is posted.
ThmC17_MissingIdentifier ==
    (\E u \in DOMAIN userIds : userIds[u] = 0) =>
        /\ Rejected /\ result.reason = RUserIds
        /\ NoAssigneeWrite
        /\ comments = <<>> /\ ~InSeq("createComment", calls)

\* two contributors, one identifier resolved and one not
WitC17_OneUnresolved ==
    /\ Rejected /\ result.reason = RUserIds
    /\ \E u \in DOMAIN userIds : userIds[u] = 0
    /\ \E u \in DOMAIN userIds : userIds[u] # 0
    /\ calls[Len(calls)] = "getByUsername"
    /\ remoteAssignees = {}

\* C19: the assignee write is issued at most once in an invocation; when
\* it fails it is not issued again and no remote write follows it.
ThmC19_WriteNeverRetried ==
    /\ Len(written) <= 1
    /\ Occurrences("addAssignees", calls) <= 1
    /\ fault = "addAssignees" =>
          /\ Rejected /\ result.reason = RAddFailed
          /\ calls[Len(calls)] = "addAssignees"
          /\ comments = <<>> /\ ~InSeq("createComment", calls)

\* the write for two contributors failed and the invocation ended there
WitC19_WriteFailed ==
    /\ Rejected /\ fault = "addAssignees"
    /\ Len(written) = 1 /\ Len(written[1]) = 2
    /\ remoteAssignees = {}

\* C22: a failed read of the issue's assignment timeline is fatal: the
\* contributor is not taken as not barred, start ends in failure and no
\* assignee write is made.
ThmC22_EventsFailureFatal ==
    fault = "timeline" =>
        /\ Rejected /\ result.reason = RTimeline
        /\ calls[Len(calls)] = "timeline"
        /\ k <= Len(teammates) /\ teammates[k] = result.user /\ Len(toAssign) < k
        /\ NoAssigneeWrite

\* the read failed for the requester after a teammate had passed
WitC22_FailedAfterTeammate ==
    /\ Rejected /\ fault = "timeline"
    /\ result.user = sender
    /\ toAssign = <<"bob">>
    /\ events = <<>>

\* C23: with every remote call answering or failing, an invocation of start
\* reaches a terminal state, which is a result with status OK or an error
\* with a reason and not both; an error is absorbing: after it nothing more
\* is called, written or decided.
ThmC23_TerminatesOnce ==
    /\ <>(result.status # "pending")
    /\ [](result.status # "pending" =>
            /\ Done
            /\ result.status \in {"OK", "error"}
            /\ result.reason # None)
    /\ [][result.status = "error" =>
            /\ result' = result
            /\ written' = written /\ remoteAssignees' = remoteAssignees
            /\ calls' = calls /\ comments' = comments
            /\ toAssign' = toAssign]_vars

\* a request over a restricted item with two contributors went through
\* every gate to its terminal state
WitC23_ThroughEveryGate ==
    /\ Committed
    /\ ItemIsRestricted
    /\ Len(toAssign) = 2
    /\ comments = <<"private", "assignment">>

\* C25: a rejection that depends on per-contributor results (the empty
\* assignment set, the history bar) is decided only after the limit check of
\* every contributor of the request has run.
CexC25_AllLimitChecksFirst ==
    (Rejected /\ result.reason \in {RBarred, RAllTeammates, RSelfLimit})
      => \A u \in SeqSet(teammates) : u \in DOMAIN workload

(***************************************************************************)
(* Claims about two invocations on one issue (SpecRace).                   *)
(***************************************************************************)
\* the second invocation wrote its assignee after the first one's
\* already-assigned check and before the first one's assignee write
RivalWroteInBetween == rival.wroteAt \in {"limits", "collaborators", "addAssignees"}

\* C13: when the issue acquires an assignee between this invocation's
\* already-assigned check and its assignee write, the request fails and adds
\* none of its contributors; and two invocations on one issue never both
\* end Committed.
CexC13_ConflictFails ==
    /\ (Done /\ RivalWroteInBetween) =>
          (Rejected /\ remoteAssignees \cap SeqSet(toAssign) = {})
    /\ ~(Committed /\ rival.pc = "done" /\ rival.status = "OK")

(***************************************************************************)
(* Claims about two invocations on two issues (SpecPair).                  *)
(***************************************************************************)
\* C24: in every interleaving of two invocations on different issues, each
\* contributor written as an assignee is under their limit against what the
\* platform holds at the time of the write.
CexC24_UnderLimitAtWrite ==
    \A n \in Invocations :
        \A u \in DOMAIN pair.atWrite[n] :
            ~LimitReached(pair.atWrite[n][u], pair.remote[u].approved,
                          pair.remote[u].changes, pair.remote[u].limit)

(***************************************************************************)
(* Claims about the reads with a fallback (SpecReads).                     *)
(***************************************************************************)
\* C20: a failed primary query is followed by exactly one fallback query,
\* whose result is used if it succeeds and whose error ends the read if it
\* fails; no read makes more than two queries and the fallback is not
\* invoked after a successful primary query.
ThmC20_OneFallback ==
    /\ rd.queries \in {<<>>, <<"primary">>, <<"primary", "fallback">>}
    /\ Len(rd.outcomes) = Len(rd.queries)
    /\ (rd.outcomes # <<>> /\ rd.outcomes[1]) =>
          (rd.queries = <<"primary">> /\ rd.pc = "done" /\ rd.used = "primary")
    /\ rd.outcomes = <<FALSE>> => rd.pc = "catch"
    /\ rd.outcomes = <<FALSE, TRUE>> => (rd.pc = "done" /\ rd.used = "fallback")
    /\ rd.outcomes = <<FALSE, FALSE>> => (rd.pc = "threw" /\ rd.used = None)
    /\ rd.pc = "threw" => rd.outcomes = <<FALSE, FALSE>>

\* the assigned-issues read answered from the fallback
WitC20_FallbackUsed ==
    /\ rd.which = "issues"
    /\ rd.pc = "done" /\ rd.used = "fallback"
    /\ rd.queries = <<"primary", "fallback">>
    /\ Len(rd.value) = 2

====
